---------------------------- MODULE Spec2Model ----------------------------
(***************************************************************************)
(* A model of src/db.c: a single-table store whose rows live in one leaf   *)
(* node (page 0) of a paged file.  The state is the data file, the         *)
(* process (pager, table, position of the command loop) and the output of  *)
(* the last command.  One action per command of the loop in main().        *)
(*                                                                         *)
(* uint32_t values are represented by their 32-bit pattern read as a       *)
(* two's-complement integer: sscanf("%d") stores that pattern and          *)
(* printf("%d") prints it, while the comparisons of the code are unsigned  *)
(* (ULess).                                                                *)
(***************************************************************************)
EXTENDS Integers, Sequences, FiniteSets, TLC

(* ------------------------------ bounds -------------------------------- *)

\* Ids typed in the first run of the program are MinId .. MaxId.
MaxId == 12
MinId == 0 - 1
\* The program is started at most MaxSessions times on the same file.
MaxSessions == 2

(* ------------------------- layout constants --------------------------- *)

COLUMN_USERNAME_SIZE == 32
COLUMN_EMAIL_SIZE == 255
ID_SIZE == 4
USERNAME_SIZE == COLUMN_USERNAME_SIZE + 1
EMAIL_SIZE == COLUMN_EMAIL_SIZE + 1
ROW_SIZE == ID_SIZE + USERNAME_SIZE + EMAIL_SIZE

PAGE_SIZE == 4096
TABLE_MAX_PAGES == 100

NODE_INTERNAL == 0
NODE_LEAF == 1

NODE_TYPE_SIZE == 1
IS_ROOT_SIZE == 1
PARENT_POINTER_SIZE == 4
NODE_TYPE_OFFSET == 0
IS_ROOT_OFFSET == NODE_TYPE_OFFSET + NODE_TYPE_SIZE
PARENT_POINTER_OFFSET == IS_ROOT_OFFSET + IS_ROOT_SIZE
COMMON_NODE_HEADER_SIZE == NODE_TYPE_SIZE + IS_ROOT_SIZE + PARENT_POINTER_SIZE
LEAF_NODE_NUM_CELLS_SIZE == 4
LEAF_NODE_NUM_CELLS_OFFSET == COMMON_NODE_HEADER_SIZE
LEAF_NODE_HEADER_SIZE == COMMON_NODE_HEADER_SIZE + LEAF_NODE_NUM_CELLS_SIZE
LEAF_NODE_KEY_SIZE == 4
LEAF_NODE_VALUE_SIZE == ROW_SIZE
LEAF_NODE_CELL_SIZE == LEAF_NODE_KEY_SIZE + LEAF_NODE_VALUE_SIZE
LEAF_NODE_SPACE_FOR_CELLS == PAGE_SIZE - LEAF_NODE_HEADER_SIZE
LEAF_NODE_MAX_CELLS == LEAF_NODE_SPACE_FOR_CELLS \div LEAF_NODE_CELL_SIZE

(* --------------------------- unsigned order --------------------------- *)

\* The lines main prints.
MsgExecuted == "Executed."
MsgTableFull == "Error: Table full."
MsgDuplicate == "Error: Duplicate key."
MsgInternal == "Need to implement searching internal nodes"

\* a < b for two uint32_t values given by their bit patterns.
ULess(a, b) ==
  \/ a >= 0 /\ b >= 0 /\ a < b
  \/ a >= 0 /\ b < 0
  \/ a < 0 /\ b < 0 /\ a < b

(* ------------------------------- rows --------------------------------- *)

\* serialize_row leaving the id bytes of the value zero.
serialize_row_no_id(src) ==
  (0 :> 0) @@ (ID_SIZE :> src.username)
     @@ ((ID_SIZE + USERNAME_SIZE) :> src.email)

\* serialize_row: the three fields copied to their offsets of the value.
serialize_row(src) ==
  (0 :> src.id) @@ (ID_SIZE :> src.username)
     @@ ((ID_SIZE + USERNAME_SIZE) :> src.email)

\* deserialize_row: the three fields read back from their offsets.
deserialize_row(src) ==
  [id |-> src[0], username |-> src[ID_SIZE],
   email |-> src[ID_SIZE + USERNAME_SIZE]]

(* ------------------------------- nodes -------------------------------- *)

\* The slots of a page that lie wholly inside its PAGE_SIZE bytes.
Slots == 0 .. (LEAF_NODE_MAX_CELLS - 1)

\* A cell of a zeroed page.
ZeroCell == [key |-> 0,
             value |-> serialize_row([id |-> 0, username |-> "", email |-> ""])]

\* get_page's malloc + memset(page, 0, PAGE_SIZE).
ZeroPage ==
  [node_type |-> 0, is_root |-> 0, parent |-> 0, num_cells |-> 0,
   cells |-> [i \in Slots |-> ZeroCell]]

get_node_type(node) == node.node_type

set_node_type(node, type) == [node EXCEPT !.node_type = type]

leaf_node_num_cells(node) == node.num_cells

leaf_node_key(node, cell_num) ==
  IF cell_num \in Slots THEN node.cells[cell_num].key ELSE 0

leaf_node_value(node, cell_num) ==
  IF cell_num \in Slots THEN node.cells[cell_num].value ELSE ZeroCell.value

\* initialize_leaf_node without set_node_type.
initialize_leaf_node_no_type(node) == [node EXCEPT !.num_cells = 0]

initialize_leaf_node(node) ==
  [set_node_type(node, NODE_LEAF) EXCEPT !.num_cells = 0]

\* Whether the bytes of cell cell_num end beyond the page.
CellPastPage(cell_num) ==
  LEAF_NODE_HEADER_SIZE + (cell_num + 1) * LEAF_NODE_CELL_SIZE > PAGE_SIZE

(* ------------------------------- pager -------------------------------- *)

NoPages == [n \in {} |-> ZeroPage]

\* The file: its length in bytes and its whole pages; the bytes of a
\* trailing partial page are never read by the code and are not kept.
EmptyFile == [length |-> 0, pages |-> <<>>]

pager_open(f) ==
  [file_length |-> f.length,
   num_pages |-> f.length \div PAGE_SIZE,
   pages |-> NoPages]

\* get_page counting every page it loads as a new page.
get_page_counts_load(pgr, f, page_num) ==
  IF page_num \notin DOMAIN pgr.pages
  THEN LET num_pages == pgr.file_length \div PAGE_SIZE
           page == IF page_num < num_pages
                   THEN f.pages[page_num + 1]
                   ELSE ZeroPage
       IN [pgr EXCEPT
             !.pages = (page_num :> page) @@ @,
             !.num_pages = @ + 1]
  ELSE pgr

\* get_page reading the page from the file on every call.
get_page_reloads(pgr, f, page_num) ==
  LET num_pages == pgr.file_length \div PAGE_SIZE
      page == IF page_num < num_pages
              THEN f.pages[page_num + 1]
              ELSE ZeroPage
  IN [pgr EXCEPT
        !.pages = (page_num :> page) @@ @,
        !.num_pages = IF page_num >= @ THEN page_num + 1 ELSE @]

\* The pager after get_page(pager, page_num); the page itself is then
\* pages[page_num].
get_page(pgr, f, page_num) ==
  IF page_num \notin DOMAIN pgr.pages
  THEN LET num_pages == pgr.file_length \div PAGE_SIZE
           page == IF page_num < num_pages
                   THEN f.pages[page_num + 1]
                   ELSE ZeroPage
       IN [pgr EXCEPT
             !.pages = (page_num :> page) @@ @,
             !.num_pages = IF page_num >= @ THEN page_num + 1 ELSE @]
  ELSE pgr

\* lseek + write of one page at page_num * PAGE_SIZE.
WritePage(f, page_num, page) ==
  LET have == Len(f.pages)
      padded == [i \in 1 .. (IF page_num + 1 > have THEN page_num + 1 ELSE have) |->
                   IF i <= have THEN f.pages[i] ELSE ZeroPage]
      end == (page_num + 1) * PAGE_SIZE
  IN [length |-> IF end > f.length THEN end ELSE f.length,
      pages |-> [padded EXCEPT ![page_num + 1] = page]]

\* pager_flush writing only the header and the cells in use of the page.
pager_flush_used_bytes(pgr, f, page_num) ==
  IF page_num \notin DOMAIN pgr.pages THEN f
  ELSE LET used == LEAF_NODE_HEADER_SIZE
                     + leaf_node_num_cells(pgr.pages[page_num]) * LEAF_NODE_CELL_SIZE
           end == page_num * PAGE_SIZE + used
       IN IF end > f.length
          THEN [length |-> end, pages |-> f.pages]
          ELSE WritePage(f, page_num, pgr.pages[page_num])

pager_flush(pgr, f, page_num) ==
  IF page_num \notin DOMAIN pgr.pages THEN f
  ELSE WritePage(f, page_num, pgr.pages[page_num])

RECURSIVE FlushFrom(_, _, _)
\* The loop of db_close from page i on: the file after it.
FlushFrom(pgr, f, i) ==
  IF i >= pgr.num_pages THEN f
  ELSE FlushFrom(pgr, IF i \in DOMAIN pgr.pages THEN pager_flush(pgr, f, i) ELSE f,
                 i + 1)

\* db_close with its loop starting at page 1.
db_close_from_one(pgr, f) == FlushFrom(pgr, f, 1)

db_close(pgr, f) == FlushFrom(pgr, f, 0)

\* db_open numbering the first page 1.
db_open_page_one(f) ==
  LET pgr == pager_open(f) IN
  IF pgr.num_pages = 0
  THEN LET got == get_page(pgr, f, 1) IN
       [got EXCEPT !.pages[1] = initialize_leaf_node(@)]
  ELSE pgr

\* db_open: the pager it leaves (the table's root_page_num is 0).
db_open(f) ==
  LET pgr == pager_open(f) IN
  IF pgr.num_pages = 0
  THEN LET got == get_page(pgr, f, 0) IN
       [got EXCEPT !.pages[0] = initialize_leaf_node(@)]
  ELSE pgr

(* ------------------------------ search -------------------------------- *)

RECURSIVE FindLoop(_, _, _, _)
\* The while loop of leaf_node_find.
FindLoop(node, key, min_index, one_past_max_index) ==
  IF one_past_max_index = min_index THEN min_index
  ELSE LET index == (min_index + one_past_max_index) \div 2
           key_at_index == leaf_node_key(node, index)
       IN IF key = key_at_index THEN index
          ELSE IF ULess(key, key_at_index)
               THEN FindLoop(node, key, min_index, index)
               ELSE FindLoop(node, key, index + 1, one_past_max_index)

RECURSIVE FindLoop_signed(_, _, _, _)
\* The loop comparing the keys as signed integers.
FindLoop_signed(node, key, min_index, one_past_max_index) ==
  IF one_past_max_index = min_index THEN min_index
  ELSE LET index == (min_index + one_past_max_index) \div 2
           key_at_index == leaf_node_key(node, index)
       IN IF key = key_at_index THEN index
          ELSE IF key < key_at_index
               THEN FindLoop_signed(node, key, min_index, index)
               ELSE FindLoop_signed(node, key, index + 1, one_past_max_index)

\* leaf_node_find with int32_t keys.
leaf_node_find_signed(node, key) ==
  FindLoop_signed(node, key, 0, leaf_node_num_cells(node))

RECURSIVE FindLoop_no_equal(_, _, _, _)
\* The loop without its test for an equal key.
FindLoop_no_equal(node, key, min_index, one_past_max_index) ==
  IF one_past_max_index = min_index THEN min_index
  ELSE LET index == (min_index + one_past_max_index) \div 2
           key_at_index == leaf_node_key(node, index)
       IN IF ULess(key, key_at_index)
          THEN FindLoop_no_equal(node, key, min_index, index)
          ELSE FindLoop_no_equal(node, key, index + 1, one_past_max_index)

\* leaf_node_find without the early return of lines 248-251.
leaf_node_find_no_equal(node, key) ==
  FindLoop_no_equal(node, key, 0, leaf_node_num_cells(node))

\* leaf_node_find: the cursor's cell_num.
leaf_node_find(node, key) == FindLoop(node, key, 0, leaf_node_num_cells(node))

(* ------------------------------ insert -------------------------------- *)

RECURSIVE ShiftUp(_, _, _)
\* Cell j - 1 copied to cell j, for j from lo up to hi.
ShiftUp(cells, lo, hi) ==
  IF lo <= hi
  THEN ShiftUp(IF lo \in Slots /\ (lo - 1) \in Slots
               THEN [cells EXCEPT ![lo] = cells[lo - 1]]
               ELSE cells,
               lo + 1, hi)
  ELSE cells

\* The memcpy loop running upwards, from cell_num + 1 to num_cells.
ShiftCells_upwards(cells, i, cell_num) == ShiftUp(cells, cell_num + 1, i)

RECURSIVE ShiftCells(_, _, _)
\* The memcpy loop of leaf_node_insert: cell i - 1 copied to cell i, for
\* i from num_cells down to cell_num + 1.
ShiftCells(cells, i, cell_num) ==
  IF i > cell_num
  THEN ShiftCells(IF i \in Slots /\ (i - 1) \in Slots
                  THEN [cells EXCEPT ![i] = cells[i - 1]]
                  ELSE cells,
                  i - 1, cell_num)
  ELSE cells

\* leaf_node_insert without the memcpy loop.
leaf_node_insert_no_shift(node, cell_num, key, value) ==
  [node EXCEPT
     !.num_cells = leaf_node_num_cells(node) + 1,
     !.cells = IF cell_num \in Slots
               THEN [@ EXCEPT ![cell_num] =
                       [key |-> key, value |-> serialize_row(value)]]
               ELSE @]

leaf_node_insert(node, cell_num, key, value) ==
  LET num_cells == leaf_node_num_cells(node)
      shifted == IF cell_num < num_cells
                 THEN ShiftCells(node.cells, num_cells, cell_num)
                 ELSE node.cells
      cell == [key |-> key, value |-> serialize_row(value)]
  IN [node EXCEPT
        !.num_cells = num_cells + 1,
        !.cells = IF cell_num \in Slots
                  THEN [shifted EXCEPT ![cell_num] = cell]
                  ELSE shifted]

\* The highest cell leaf_node_insert writes lies beyond the page.
InsertPastPage(node, cell_num) ==
  LET num_cells == leaf_node_num_cells(node) IN
  CellPastPage(IF cell_num < num_cells THEN num_cells ELSE cell_num)

\* The capacity check with > for >=.
TableIsFull_gt(num_cells) == num_cells > LEAF_NODE_MAX_CELLS

\* main, line 343: the capacity check.
TableIsFull(num_cells) == num_cells >= LEAF_NODE_MAX_CELLS

\* main, lines 350-357: the duplicate check.
IsDuplicate(node, cell_num, num_cells, id) ==
  cell_num < num_cells /\ leaf_node_key(node, cell_num) = id

\* The insert branch writing the row before it checks for a duplicate.
execute_insert_write_first(node, row) ==
  LET num_cells == leaf_node_num_cells(node) IN
  IF TableIsFull(num_cells)
  THEN [msg |-> MsgTableFull, node |-> node, exits |-> FALSE, past |-> FALSE]
  ELSE IF get_node_type(node) # NODE_LEAF
  THEN [msg |-> MsgInternal, node |-> node, exits |-> TRUE, past |-> FALSE]
  ELSE LET cell_num == leaf_node_find(node, row.id) IN
       IF IsDuplicate(node, cell_num, num_cells, row.id)
       THEN [msg |-> MsgDuplicate,
             node |-> [node EXCEPT !.cells[cell_num].value = serialize_row(row)],
             exits |-> FALSE, past |-> FALSE]
       ELSE [msg |-> MsgExecuted,
             node |-> leaf_node_insert(node, cell_num, row.id, row),
             exits |-> FALSE,
             past |-> InsertPastPage(node, cell_num)]

\* The insert branch ending the process on a duplicate key.
execute_insert_fatal_duplicate(node, row) ==
  LET num_cells == leaf_node_num_cells(node) IN
  IF TableIsFull(num_cells)
  THEN [msg |-> MsgTableFull, node |-> node, exits |-> FALSE, past |-> FALSE]
  ELSE IF get_node_type(node) # NODE_LEAF
  THEN [msg |-> MsgInternal, node |-> node, exits |-> TRUE, past |-> FALSE]
  ELSE LET cell_num == leaf_node_find(node, row.id) IN
       IF IsDuplicate(node, cell_num, num_cells, row.id)
       THEN [msg |-> MsgDuplicate, node |-> node, exits |-> TRUE, past |-> FALSE]
       ELSE [msg |-> MsgExecuted,
             node |-> leaf_node_insert(node, cell_num, row.id, row),
             exits |-> FALSE,
             past |-> InsertPastPage(node, cell_num)]

\* The insert branch of main on the root node: what it prints, the node
\* it leaves, whether the process exits (table_find on an internal node)
\* and whether a cell was written beyond the page.
execute_insert(node, row) ==
  LET num_cells == leaf_node_num_cells(node) IN
  IF TableIsFull(num_cells)
  THEN [msg |-> MsgTableFull, node |-> node, exits |-> FALSE, past |-> FALSE]
  ELSE IF get_node_type(node) # NODE_LEAF
  THEN [msg |-> MsgInternal, node |-> node, exits |-> TRUE, past |-> FALSE]
  ELSE LET cell_num == leaf_node_find(node, row.id) IN
       IF IsDuplicate(node, cell_num, num_cells, row.id)
       THEN [msg |-> MsgDuplicate, node |-> node, exits |-> FALSE, past |-> FALSE]
       ELSE [msg |-> MsgExecuted,
             node |-> leaf_node_insert(node, cell_num, row.id, row),
             exits |-> FALSE,
             past |-> InsertPastPage(node, cell_num)]

(* ------------------------------- scan --------------------------------- *)

\* table_start: table_find(table, 0) and the end_of_table flag.
table_start(node) ==
  [cell_num |-> leaf_node_find(node, 0),
   end_of_table |-> (leaf_node_num_cells(node) = 0)]

\* cursor_advance with > for >=.
cursor_advance_gt(node, c) ==
  [cell_num |-> c.cell_num + 1,
   end_of_table |-> (c.end_of_table \/ c.cell_num + 1 > leaf_node_num_cells(node))]

cursor_advance(node, c) ==
  [cell_num |-> c.cell_num + 1,
   end_of_table |-> (c.end_of_table \/ c.cell_num + 1 >= leaf_node_num_cells(node))]

cursor_value(node, c) == leaf_node_value(node, c.cell_num)

\* printf("(%d, %s, %s)\n", ...): the id is printed as a signed int, which
\* is the bit pattern itself.
PrintRow(row) == [id |-> row.id, username |-> row.username, email |-> row.email]

RECURSIVE ScanLoop(_, _, _)
\* The while loop of select: the lines printed from cursor c on.  A
\* cursor beyond the page would read foreign memory; the loop is cut there.
ScanLoop(node, c, printed) ==
  IF c.end_of_table \/ c.cell_num \notin Slots THEN printed
  ELSE ScanLoop(node, cursor_advance(node, c),
                Append(printed, PrintRow(deserialize_row(cursor_value(node, c)))))

RECURSIVE ScanCursors(_, _, _)
\* The cursors the while loop of select goes through, the one it ends on
\* included.
ScanCursors(node, c, seen) ==
  IF c.end_of_table \/ c.cell_num \notin Slots THEN Append(seen, c)
  ELSE ScanCursors(node, cursor_advance(node, c), Append(seen, c))

execute_select(node) == ScanLoop(node, table_start(node), <<>>)


(* ------------------------------ inputs -------------------------------- *)

\* The ids typed in the first run, and in the later runs.
FirstIds == MinId .. MaxId
LateIds == {MinId, 0, MaxId}

\* Ids that are typed with two different usernames.
TwoNameIds == {0}

InputRow(i, u) == [id |-> i, username |-> u, email |-> "mail"]

\* The rows of the insert commands typed in run number n.  Names and
\* emails fit their columns.  An insert line with fewer than three fields
\* leaves the rest of the local Row uninitialized: any id and any strings,
\* which this set stands for as well.
InputRows(n) ==
  LET ids == IF n = 1 THEN FirstIds ELSE LateIds IN
  {InputRow(i, "alice") : i \in ids}
    \cup {InputRow(i, "bob") : i \in ids \cap TwoNameIds}

(* ------------------------------- state -------------------------------- *)

VARIABLES
  file,           \* the data file
  pc,             \* "stopped" | "prompt": the position of the process
  pager,          \* the Pager of the running process
  table,          \* the Table of the running process
  last,           \* the last thing that happened: a command, or how a run ended
  out_msg,        \* the message the last command printed
  out_rows,       \* the rows the last command printed
  sessions,       \* how many times the program was started
  heap_overflow,  \* a cell was written beyond its page
  accepted,       \* history: the rows of the inserts executed in the running process
  fresh,          \* history: this run was opened on a table without rows
  before_close,   \* history: what select would have printed at the last .exit
  id_was_stored   \* history: the last typed id was a key of the leaf

vars == <<file, pc, pager, table, last, out_msg, out_rows, sessions,
          heap_overflow, accepted, fresh, before_close, id_was_stored>>

\* The memory of a process that is not running.
NoPager == [file_length |-> 0, num_pages |-> 0, pages |-> NoPages]
NoTable == [root_page_num |-> 0]

\* The root node as get_page returns it in this state.
RootOf(pgr, f, tbl) == get_page(pgr, f, tbl.root_page_num).pages[tbl.root_page_num]
RootNode == RootOf(pager, file, table)

\* The keys stored in the cells 0 .. num_cells - 1 of a node.
KeysOf(node) == {leaf_node_key(node, i) : i \in 0 .. (leaf_node_num_cells(node) - 1)}

\* The keys of the leaf stored in page 0 of a file.
FileKeys(f) == IF Len(f.pages) = 0 THEN {} ELSE KeysOf(f.pages[1])

\* The program is started again only on files whose keys, the late ids
\* aside, are 1 .. k.
ReopenOK(f) == \E k \in 0 .. MaxId : FileKeys(f) \ LateIds = 1 .. k

Init ==
  /\ file = EmptyFile
  /\ pc = "stopped"
  /\ pager = NoPager
  /\ table = NoTable
  /\ last = "none"
  /\ out_msg = ""
  /\ out_rows = <<>>
  /\ sessions = 0
  /\ heap_overflow = FALSE
  /\ accepted = {}
  /\ fresh = TRUE
  /\ before_close = <<>>
  /\ id_was_stored = FALSE

\* main, line 316: db_open(argv[1]).
Open ==
  /\ pc = "stopped"
  /\ sessions < MaxSessions
  /\ sessions > 0 => ReopenOK(file)
  /\ pager' = db_open(file)
  /\ table' = [root_page_num |-> 0]
  /\ pc' = "prompt"
  /\ last' = "open"
  /\ out_msg' = ""
  /\ out_rows' = <<>>
  /\ sessions' = sessions + 1
  /\ accepted' = {}
  /\ fresh' = (leaf_node_num_cells(RootOf(pager', file, table')) = 0)
  /\ id_was_stored' = FALSE
  /\ UNCHANGED <<file, heap_overflow, before_close>>

\* main, lines 336-361: insert.
Insert(row) ==
  /\ pc = "prompt"
  /\ \E got \in {get_page(pager, file, table.root_page_num)} :
       \E r \in {execute_insert(got.pages[table.root_page_num], row)} :
          /\ pager' = IF r.exits THEN NoPager
                      ELSE [got EXCEPT !.pages[table.root_page_num] = r.node]
          /\ table' = IF r.exits THEN NoTable ELSE table
          /\ pc' = IF r.exits THEN "stopped" ELSE "prompt"
          /\ out_msg' = r.msg
          /\ heap_overflow' = (heap_overflow \/ r.past)
          /\ accepted' = IF r.exits THEN {}
                         ELSE IF r.msg = MsgExecuted THEN accepted \cup {row}
                         ELSE accepted
          /\ id_was_stored' = (row.id \in KeysOf(got.pages[table.root_page_num]))
  /\ last' = "insert"
  /\ out_rows' = <<>>
  /\ UNCHANGED <<file, sessions, fresh, before_close>>

\* main, lines 362-372: select.
Select ==
  /\ pc = "prompt"
  /\ \E got \in {get_page(pager, file, table.root_page_num)} :
       \E leaf \in {get_node_type(got.pages[table.root_page_num]) = NODE_LEAF} :
          /\ pager' = IF leaf THEN got ELSE NoPager
          /\ table' = IF leaf THEN table ELSE NoTable
          /\ pc' = IF leaf THEN "prompt" ELSE "stopped"
          /\ out_rows' = IF leaf
                         THEN execute_select(got.pages[table.root_page_num])
                         ELSE <<>>
          /\ out_msg' = IF leaf THEN MsgExecuted ELSE MsgInternal
          /\ accepted' = IF leaf THEN accepted ELSE {}
  /\ last' = "select"
  /\ UNCHANGED <<file, sessions, heap_overflow, fresh, before_close,
                 id_was_stored>>

\* main, lines 326-334: .btree reads page 0 and prints its keys (the key
\* lines are not kept).
Btree ==
  /\ pc = "prompt"
  /\ pager' = get_page(pager, file, 0)
  /\ last' = ".btree"
  /\ out_msg' = "Tree:"
  /\ out_rows' = <<>>
  /\ UNCHANGED <<file, pc, table, sessions, heap_overflow, accepted, fresh,
                 before_close, id_was_stored>>

\* main, lines 323-325: .exit.
Exit ==
  /\ pc = "prompt"
  /\ file' = db_close(pager, file)
  /\ before_close' = execute_select(RootNode)
  /\ pager' = NoPager
  /\ table' = NoTable
  /\ pc' = "stopped"
  /\ last' = ".exit"
  /\ out_msg' = ""
  /\ out_rows' = <<>>
  /\ accepted' = {}
  /\ id_was_stored' = FALSE
  /\ UNCHANGED <<sessions, heap_overflow, fresh>>

\* read_input, line 28: end of input ends the process without db_close.
Eof ==
  /\ pc = "prompt"
  /\ pager' = NoPager
  /\ table' = NoTable
  /\ pc' = "stopped"
  /\ last' = "eof"
  /\ out_msg' = ""
  /\ out_rows' = <<>>
  /\ accepted' = {}
  /\ id_was_stored' = FALSE
  /\ UNCHANGED <<file, sessions, heap_overflow, fresh, before_close>>

\* The process is killed inside the write of pager_flush that would have
\* grown the file to its first page: a partial page is left behind.
Killed ==
  /\ pc = "prompt"
  /\ 0 \in DOMAIN pager.pages
  /\ pager.num_pages > 0
  /\ file.length < PAGE_SIZE
  /\ \E n \in {1, LEAF_NODE_HEADER_SIZE, PAGE_SIZE - 1} :
       /\ n > file.length
       /\ file' = [length |-> n, pages |-> <<>>]
  /\ pager' = NoPager
  /\ table' = NoTable
  /\ pc' = "stopped"
  /\ last' = "killed"
  /\ out_msg' = ""
  /\ out_rows' = <<>>
  /\ accepted' = {}
  /\ id_was_stored' = FALSE
  /\ UNCHANGED <<sessions, heap_overflow, fresh, before_close>>

Next ==
  \/ Open
  \/ \E row \in InputRows(sessions) : Insert(row)
  \/ Select
  \/ Btree
  \/ Exit
  \/ Eof
  \/ Killed

Spec == Init /\ [][Next]_vars

(* ------------------------------ claims -------------------------------- *)

\* The rows a node stores in its cells 0 .. num_cells - 1, in cell order.
StoredRows(node) ==
  [i \in 1 .. leaf_node_num_cells(node) |->
     [key |-> leaf_node_key(node, i - 1),
      row |-> deserialize_row(leaf_node_value(node, i - 1))]]

(* C1: after inserts into a table opened without rows, select prints      *)
(* exactly the rows of the executed inserts, each once, in strictly        *)
(* ascending (unsigned) id order.                                          *)
C1_ScanSortedComplete ==
  (pc = "prompt" /\ last = "select" /\ fresh) =>
     /\ \A i \in 1 .. (Len(out_rows) - 1) : ULess(out_rows[i].id, out_rows[i + 1].id)
     /\ {out_rows[i] : i \in DOMAIN out_rows} = {PrintRow(r) : r \in accepted}
     /\ Len(out_rows) = Cardinality(accepted)

\* A select that printed four rows or more, ending with the row typed
\* with id -1, whose key is the largest uint32_t.
C1_Witness ==
  /\ pc = "prompt" /\ last = "select" /\ fresh
  /\ Len(out_rows) >= 4
  /\ out_rows[Len(out_rows)].id = MinId
  /\ Cardinality(accepted) = Len(out_rows)

(* C2: an insert rejected as a duplicate leaves the cell count, every      *)
(* stored key and row, the file and what select prints as they were.       *)
C2_DuplicateNoChange ==
  [][ (pc = "prompt" /\ last' = "insert" /\ out_msg' = MsgDuplicate) =>
        /\ pc' = "prompt"
        /\ leaf_node_num_cells(RootOf(pager', file', table'))
             = leaf_node_num_cells(RootNode)
        /\ StoredRows(RootOf(pager', file', table')) = StoredRows(RootNode)
        /\ execute_select(RootOf(pager', file', table')) = execute_select(RootNode)
        /\ file' = file ]_vars

\* A duplicate was rejected on a leaf that holds the two rows typed before.
C2_Witness ==
  /\ pc = "prompt" /\ last = "insert" /\ out_msg = MsgDuplicate
  /\ id_was_stored
  /\ leaf_node_num_cells(RootNode) >= 2

(* C3: the first select after reopening a file prints the rows, in the     *)
(* order, that a select would have printed just before the last .exit.     *)
C3_RoundTrip ==
  (pc = "prompt" /\ last = "select" /\ out_msg = MsgExecuted /\ accepted = {}) =>
     out_rows = before_close

\* A select in a later run, before any insert of that run, that printed
\* three rows or more.
C3_Witness ==
  /\ pc = "prompt" /\ last = "select" /\ accepted = {}
  /\ sessions >= 2
  /\ Len(out_rows) >= 3
  /\ out_rows = before_close

\* The leaf pages of a pager.
LeafPages(pgr) == {n \in DOMAIN pgr.pages : get_node_type(pgr.pages[n]) = NODE_LEAF}

(* C4: an insert of a new id into a leaf that holds LEAF_NODE_MAX_CELLS    *)
(* cells is executed and leaves two leaves that hold one cell more         *)
(* together, every key of the one below every key of the other.            *)
C4_SplitOnFull ==
  [][ (/\ pc = "prompt"
       /\ leaf_node_num_cells(RootNode) = LEAF_NODE_MAX_CELLS
       /\ last' = "insert"
       /\ ~id_was_stored') =>
        /\ out_msg' = MsgExecuted
        /\ \E l, r \in LeafPages(pager') :
             /\ l # r
             /\ leaf_node_num_cells(pager'.pages[l]) + leaf_node_num_cells(pager'.pages[r])
                  = LEAF_NODE_MAX_CELLS + 1
             /\ \A a \in KeysOf(pager'.pages[l]) :
                  \A b \in KeysOf(pager'.pages[r]) : ULess(a, b) ]_vars

(* C5: an insert whose id is a key of the leaf is answered with the        *)
(* duplicate-key message, whatever the cell count.                         *)
C5_DuplicateAlwaysReported ==
  (last = "insert" /\ id_was_stored) => out_msg = MsgDuplicate

(* C6, as claimed: an insert rejected as table-full leaves the cell        *)
(* count, the stored cells and the whole pager as they were.               *)
C6_FullNoChangeAtAll ==
  [][ (pc = "prompt" /\ last' = "insert" /\ out_msg' = MsgTableFull) =>
        /\ StoredRows(RootOf(pager', file', table')) = StoredRows(RootNode)
        /\ pager' = pager ]_vars

(* C6, amended: an insert rejected as table-full leaves the cell count,    *)
(* the stored cells, the file, the table and the pager's file_length and   *)
(* num_pages as they were; the one thing it may change in the pager is to  *)
(* load the root page, with the bytes of the file, into the page cache.    *)
C6_FullNoChange ==
  [][ (pc = "prompt" /\ last' = "insert" /\ out_msg' = MsgTableFull) =>
        /\ pc' = "prompt"
        /\ RootOf(pager', file', table') = RootNode
        /\ StoredRows(RootOf(pager', file', table')) = StoredRows(RootNode)
        /\ file' = file
        /\ table' = table
        /\ pager'.file_length = pager.file_length
        /\ pager'.num_pages = pager.num_pages
        /\ DOMAIN pager'.pages = DOMAIN pager.pages \cup {table.root_page_num}
        /\ \A n \in DOMAIN pager.pages : pager'.pages[n] = pager.pages[n] ]_vars

\* An insert was rejected as table-full in a run that loaded the full
\* leaf from the file.
C6_Witness ==
  /\ pc = "prompt" /\ last = "insert" /\ out_msg = MsgTableFull
  /\ sessions >= 2
  /\ leaf_node_num_cells(RootNode) = LEAF_NODE_MAX_CELLS

(* C7: after a duplicate-key or a table-full rejection the process is at   *)
(* the prompt with its table, and the insert, select or .exit typed next   *)
(* is carried out: an insert is answered with one of its three messages,   *)
(* a select prints the rows of the leaf, an .exit writes the leaf to the   *)
(* file.                                                                   *)
C7_RejectionKeepsSession ==
  [][ (last = "insert" /\ out_msg \in {MsgDuplicate, MsgTableFull}) =>
        /\ pc = "prompt"
        /\ table.root_page_num \in DOMAIN pager.pages
        /\ last' # "open"
        /\ last' = "insert" =>
             pc' = "prompt" /\ out_msg' \in {MsgExecuted, MsgDuplicate, MsgTableFull}
        /\ last' = "select" =>
             /\ pc' = "prompt" /\ out_msg' = MsgExecuted
             /\ Len(out_rows') = leaf_node_num_cells(RootNode)
        /\ last' = ".exit" =>
             /\ Len(file'.pages) >= 1
             /\ file'.pages[1] = RootNode ]_vars

\* An insert of a stored id was rejected on a leaf that is full: both
\* rejections apply to it.
C7_Witness ==
  /\ pc = "prompt" /\ last = "insert"
  /\ out_msg \in {MsgDuplicate, MsgTableFull}
  /\ id_was_stored
  /\ leaf_node_num_cells(RootNode) = LEAF_NODE_MAX_CELLS

(* C8: the program does not come to its prompt on a file whose length is   *)
(* not a multiple of PAGE_SIZE.                                            *)
C8_TornFileRefused ==
  pc = "prompt" => pager.file_length % PAGE_SIZE = 0

(* C9: at the prompt the root page has its is-root flag set.               *)
C9_RootFlagSet ==
  pc = "prompt" => RootNode.is_root = 1

(* C10: the leaf never holds more than LEAF_NODE_MAX_CELLS =               *)
(* (4096 - 10) div 297 = 13 cells, in memory or in the file, and no cell   *)
(* is written beyond the 4096 bytes of its page.                           *)
C10_CellCountBounded ==
  /\ LEAF_NODE_MAX_CELLS = 13
  /\ LEAF_NODE_MAX_CELLS = (PAGE_SIZE - LEAF_NODE_HEADER_SIZE) \div LEAF_NODE_CELL_SIZE
  /\ PAGE_SIZE = 4096 /\ LEAF_NODE_HEADER_SIZE = 10 /\ LEAF_NODE_CELL_SIZE = 297
  /\ ~CellPastPage(LEAF_NODE_MAX_CELLS - 1)
  /\ ~heap_overflow
  /\ \A n \in DOMAIN pager.pages :
       leaf_node_num_cells(pager.pages[n]) <= LEAF_NODE_MAX_CELLS
  /\ \A i \in DOMAIN file.pages :
       leaf_node_num_cells(file.pages[i]) <= LEAF_NODE_MAX_CELLS

\* The leaf holds LEAF_NODE_MAX_CELLS cells and one more insert was typed.
C10_Witness ==
  /\ pc = "prompt" /\ last = "insert" /\ out_msg = MsgTableFull
  /\ ~id_was_stored
  /\ leaf_node_num_cells(RootNode) = LEAF_NODE_MAX_CELLS

\* The keys of cells 0 .. num_cells - 1 of a node ascend strictly.
KeysAscend(node) ==
  \A i \in 0 .. (leaf_node_num_cells(node) - 2) :
     ULess(leaf_node_key(node, i), leaf_node_key(node, i + 1))

(* C11: in every page of the pager and of the file the keys of cells       *)
(* 0 .. num_cells - 1 ascend strictly in the unsigned order; the cells     *)
(* counted are the first num_cells slots of the page.                      *)
C11_KeysAscending ==
  /\ \A n \in DOMAIN pager.pages :
       /\ KeysAscend(pager.pages[n])
       /\ 0 .. (leaf_node_num_cells(pager.pages[n]) - 1) \subseteq Slots
  /\ \A i \in DOMAIN file.pages :
       /\ KeysAscend(file.pages[i])
       /\ 0 .. (leaf_node_num_cells(file.pages[i]) - 1) \subseteq Slots

\* A leaf of four cells or more whose last key was typed as -1 and whose
\* first key is 0.
C11_Witness ==
  /\ pc = "prompt"
  /\ leaf_node_num_cells(RootNode) >= 4
  /\ leaf_node_key(RootNode, 0) = 0
  /\ leaf_node_key(RootNode, leaf_node_num_cells(RootNode) - 1) = MinId

\* The keys searched for: the typed ids and one beyond them on each side
\* of the signed range.
SearchKeys == (MinId - 1) .. (MaxId + 1)

\* The cells of a node whose key is not below key.
NotBelow(node, key) ==
  {i \in 0 .. (leaf_node_num_cells(node) - 1) : ~ULess(leaf_node_key(node, i), key)}

(* C12, on every leaf as an open or an insert leaves it:                   *)
(* on a leaf with strictly ascending keys leaf_node_find returns the       *)
(* smallest cell index whose key is >= the search key, or num_cells when   *)
(* there is none: the cell of the key if it is stored, and else the place  *)
(* where it keeps the keys ascending.                                      *)
C12_FindLowerBound ==
  (pc = "prompt" /\ last \in {"open", "insert"}) =>
    \E node \in {RootNode} :
      KeysAscend(node) =>
        \A key \in SearchKeys :
          \E at \in {leaf_node_find(node, key)}, nb \in {NotBelow(node, key)} :
             /\ at \in 0 .. leaf_node_num_cells(node)
             /\ \A i \in nb : at <= i
             /\ at \in nb \/ (nb = {} /\ at = leaf_node_num_cells(node))
             /\ key \in KeysOf(node) => leaf_node_key(node, at) = key
             /\ \A i \in 0 .. (leaf_node_num_cells(node) - 1) :
                  /\ i < at => ULess(leaf_node_key(node, i), key)
                  /\ (i >= at /\ key \notin KeysOf(node)) =>
                        ULess(key, leaf_node_key(node, i))

\* A leaf of five cells or more on which a stored key is found in the
\* middle and an absent key has its place in the middle.
C12_Witness ==
  /\ pc = "prompt" /\ KeysAscend(RootNode)
  /\ leaf_node_num_cells(RootNode) >= 5
  /\ \E key \in SearchKeys :
       /\ key \in KeysOf(RootNode)
       /\ leaf_node_find(RootNode, key) \in 1 .. (leaf_node_num_cells(RootNode) - 2)
  /\ \E key \in SearchKeys :
       /\ key \notin KeysOf(RootNode)
       /\ leaf_node_find(RootNode, key) \in 1 .. (leaf_node_num_cells(RootNode) - 2)

(* C13: an executed insert into a leaf of n < LEAF_NODE_MAX_CELLS cells,   *)
(* at the index i leaf_node_find gives, leaves cells 0 .. i - 1 as they    *)
(* were, holds the typed key and row in cell i, holds each old cell j of   *)
(* i .. n - 1 in cell j + 1, and counts n + 1 cells.                       *)
C13_InsertFrame ==
  [][ (pc = "prompt" /\ last' = "insert" /\ out_msg' = MsgExecuted) =>
        \E old \in {RootNode}, new \in {RootOf(pager', file', table')} :
          \E n \in {leaf_node_num_cells(old)} :
            /\ n < LEAF_NODE_MAX_CELLS
            /\ leaf_node_num_cells(new) = n + 1
            /\ \E i \in 0 .. n :
                 /\ \A j \in 0 .. (i - 1) : new.cells[j] = old.cells[j]
                 /\ \A j \in i .. (n - 1) : new.cells[j + 1] = old.cells[j]
                 /\ \E row \in InputRows(sessions) :
                      /\ new.cells[i] = [key |-> row.id, value |-> serialize_row(row)]
                      /\ deserialize_row(leaf_node_value(new, i)) = row
                 /\ i = leaf_node_find(old, leaf_node_key(new, i)) ]_vars

\* An insert was executed on a leaf that now holds five cells or more,
\* the first with key 0 and the last with the key typed as -1: whichever
\* of the cells came last, cells of the others were shifted or kept.
C13_Witness ==
  /\ pc = "prompt" /\ last = "insert" /\ out_msg = MsgExecuted
  /\ leaf_node_num_cells(RootNode) >= 5
  /\ leaf_node_key(RootNode, 0) = 0
  /\ deserialize_row(leaf_node_value(RootNode, 0)).username = "bob"
  /\ leaf_node_key(RootNode, leaf_node_num_cells(RootNode) - 1) = MinId

(* C14: the scan of select ends: table_start is at cell 0 with             *)
(* end_of_table iff the leaf has no cells, cursor_advance goes through     *)
(* the cells 0 .. num_cells - 1 once each in increasing order, and         *)
(* end_of_table is set exactly at num_cells; select prints one row per     *)
(* cell, in cell order.                                                    *)
C14_ScanComplete ==
  (pc = "prompt" /\ last = "select") =>
    \E node \in {RootNode} :
      \E n \in {leaf_node_num_cells(node)},
         cs \in {ScanCursors(node, table_start(node), <<>>)} :
        /\ table_start(node).cell_num = 0
        /\ table_start(node).end_of_table <=> (n = 0)
        /\ Len(cs) = n + 1
        /\ \A k \in 1 .. Len(cs) :
             /\ cs[k].cell_num = k - 1
             /\ cs[k].end_of_table <=> (cs[k].cell_num >= n)
        /\ Len(out_rows) = n
        /\ \A k \in 1 .. n :
             out_rows[k] = PrintRow(deserialize_row(leaf_node_value(node, k - 1)))

\* A select printed the rows of a full leaf, and one of an empty leaf is
\* told apart by the count.
C14_Witness ==
  /\ pc = "prompt" /\ last = "select"
  /\ leaf_node_num_cells(RootNode) = LEAF_NODE_MAX_CELLS
  /\ Len(out_rows) = LEAF_NODE_MAX_CELLS

(* C15: an .exit leaves every page of the page cache in the file at the    *)
(* offset page_num * PAGE_SIZE, and a file whose length is a multiple of   *)
(* PAGE_SIZE and holds page 0.                                             *)
C15_CloseWritesPages ==
  [][ (pc = "prompt" /\ last' = ".exit") =>
        /\ \A n \in DOMAIN pager.pages :
             /\ (n + 1) * PAGE_SIZE <= file'.length
             /\ n + 1 <= Len(file'.pages)
             /\ file'.pages[n + 1] = pager.pages[n]
        /\ file'.length % PAGE_SIZE = 0
        /\ file'.length >= PAGE_SIZE
        /\ Len(file'.pages) = file'.length \div PAGE_SIZE ]_vars

\* An .exit wrote a leaf of two rows or more over a file that a cut write
\* or an earlier .exit had left.
C15_Witness ==
  /\ pc = "stopped" /\ last = ".exit"
  /\ sessions >= 2
  /\ Len(file.pages) = 1
  /\ leaf_node_num_cells(file.pages[1]) >= 2
  /\ Len(before_close) = leaf_node_num_cells(file.pages[1])

(* C16: the root page is a leaf in the page cache and in the file, in      *)
(* every state, and no command ends in table_find's branch for internal    *)
(* nodes.                                                                  *)
C16_RootIsLeaf ==
  /\ out_msg # MsgInternal
  /\ pc = "prompt" => get_node_type(RootNode) = NODE_LEAF
  /\ \A n \in DOMAIN pager.pages : get_node_type(pager.pages[n]) = NODE_LEAF
  /\ \A i \in DOMAIN file.pages : get_node_type(file.pages[i]) = NODE_LEAF

\* In a later run, on a leaf read from the file, an insert was executed.
C16_Witness ==
  /\ pc = "prompt" /\ sessions >= 2 /\ ~fresh
  /\ last = "insert" /\ out_msg = MsgExecuted
  /\ get_node_type(RootNode) = NODE_LEAF

(* C17: root_page_num is 0, page 0 is the only page the pager ever holds,  *)
(* num_pages is 1 from db_open on, and the pages asked of get_page (the    *)
(* root and page 0) are below TABLE_MAX_PAGES.                             *)
C17_OnlyPageZero ==
  /\ table.root_page_num = 0
  /\ DOMAIN pager.pages \subseteq {0}
  /\ pc = "prompt" =>
       /\ pager.num_pages = 1
       /\ {table.root_page_num, 0} \subseteq 0 .. (TABLE_MAX_PAGES - 1)

\* A later run that has loaded page 0 from the file and added a row.
C17_Witness ==
  /\ pc = "prompt" /\ sessions >= 2 /\ ~fresh
  /\ accepted # {}
  /\ DOMAIN pager.pages = {0}
  /\ pager.num_pages = 1

(* C18: in every page of the page cache and of the file, the key of every  *)
(* cell in use is the id of the row in the cell's value, and the ids a     *)
(* select prints are the leaf's keys in cell order.                        *)
C18_KeyIsRowId ==
  /\ \A n \in DOMAIN pager.pages :
       \A i \in 0 .. (leaf_node_num_cells(pager.pages[n]) - 1) :
         leaf_node_key(pager.pages[n], i)
           = deserialize_row(leaf_node_value(pager.pages[n], i)).id
  /\ \A p \in DOMAIN file.pages :
       \A i \in 0 .. (leaf_node_num_cells(file.pages[p]) - 1) :
         leaf_node_key(file.pages[p], i)
           = deserialize_row(leaf_node_value(file.pages[p], i)).id
  /\ (pc = "prompt" /\ last = "select") =>
       \E node \in {RootNode} :
         /\ Len(out_rows) = leaf_node_num_cells(node)
         /\ \A k \in 1 .. Len(out_rows) :
              out_rows[k].id = leaf_node_key(node, k - 1)

\* A select printed three rows or more, the ids -1 and 0 among them, from
\* a leaf whose keys are those ids.
C18_Witness ==
  /\ pc = "prompt" /\ last = "select"
  /\ Len(out_rows) >= 3
  /\ out_rows[1].id = 0
  /\ out_rows[Len(out_rows)].id = MinId
  /\ leaf_node_key(RootNode, Len(out_rows) - 1) = MinId

(* C19: a select leaves the root node (its cell count and every cell),     *)
(* root_page_num, num_pages, the pages already in the cache and the file   *)
(* as they were; it prints the scan of that node, and a select right       *)
(* after a select prints the same rows.                                    *)
C19_SelectFrame ==
  [][ (pc = "prompt" /\ last' = "select") =>
        \E old \in {RootNode}, new \in {RootOf(pager', file', table')} :
          /\ leaf_node_num_cells(new) = leaf_node_num_cells(old)
          /\ new.cells = old.cells
          /\ new = old
          /\ table'.root_page_num = table.root_page_num
          /\ pager'.num_pages = pager.num_pages
          /\ \A n \in DOMAIN pager.pages :
               n \in DOMAIN pager'.pages /\ pager'.pages[n] = pager.pages[n]
          /\ file' = file
          /\ pc' = "prompt"
          /\ out_rows' = execute_select(old)
          /\ last = "select" => out_rows' = out_rows ]_vars

\* A select in a later run, on a leaf holding rows of this run and of an
\* earlier one.
C19_Witness ==
  /\ pc = "prompt" /\ last = "select"
  /\ sessions >= 2 /\ accepted # {}
  /\ Len(out_rows) >= 3
  /\ Len(out_rows) > Cardinality(accepted)
  /\ 0 \in DOMAIN pager.pages

=============================================================================
